---------------------------- MODULE Spec2Model ----------------------------
(***************************************************************************)
(* A model of cosmox's query-translation and pagination core               *)
(* (createFilter, buildWhereClause, constructFieldSelection,               *)
(* constructOrderByClause, buildQueryFindMany and BaseModel.findMany).     *)
(*                                                                         *)
(* JavaScript values are tagged records: [t |-> "undefined"],              *)
(* [t |-> "null"], [t |-> "number", n, d] (the rational n/d, d = 0 for     *)
(* NaN), [t |-> "string", s], [t |-> "boolean", b], [t |-> "array", v]     *)
(* and [t |-> "object", e] whose e is the sequence of the object's own     *)
(* entries [k, v] in declaration order.  Query text is a TLA+ string.      *)
(***************************************************************************)
EXTENDS Integers, Sequences, FiniteSets, TLC

\* ------------------------------------------------------------------ values

Undefined == [t |-> "undefined"]
Null == [t |-> "null"]
NaN == [t |-> "number", n |-> 0, d |-> 0]
Num(n) == [t |-> "number", n |-> n, d |-> 1]
Half(n) == [t |-> "number", n |-> n, d |-> 2]
Str(s) == [t |-> "string", s |-> s]
Bool(b) == [t |-> "boolean", b |-> b]
Arr(v) == [t |-> "array", v |-> v]
Obj(e) == [t |-> "object", e |-> e]
\* a Date, with the text String(date) gives
Date(s) == [t |-> "date", s |-> s]
Entry(k, v) == [k |-> k, v |-> v]

\* ----------------------------------------------------------------- helpers

isNull(x) == x.t = "null"
isUndefined(x) == x.t = "undefined"
isBoolean(x) == x.t = "boolean"
isNumber(x) == x.t = "number" /\ x.d # 0
isArray(x) == x.t = "array"
objectIsEmpty(x) == x.t = "object" /\ x.e = <<>>
isNonEmptyString(s) == s # ""
isEmptyArray(xs) == xs = <<>>

\* typeof x
TypeOf(x) ==
  IF x.t \in {"null", "array", "object"} THEN "object" ELSE x.t

\* parts.join(sep) on a sequence of strings
RECURSIVE Join(_, _)
Join(parts, sep) ==
  IF parts = <<>> THEN ""
  ELSE IF Len(parts) = 1 THEN parts[1]
  ELSE parts[1] \o sep \o Join(Tail(parts), sep)

\* The text a template literal `${x}` interpolates: String(x).
RECURSIVE TemplateString(_)
TemplateString(x) ==
  CASE x.t = "undefined" -> "undefined"
    [] x.t = "null" -> "null"
    [] x.t = "string" -> x.s
    [] x.t = "date" -> x.s
    [] x.t = "boolean" -> (IF x.b THEN "true" ELSE "false")
    [] x.t = "number" ->
         (IF x.d = 0 THEN "NaN"
          ELSE IF x.d = 1 THEN ToString(x.n)
          ELSE ToString(x.n \div 2) \o ".5")
    [] x.t = "array" ->
         Join([i \in 1..Len(x.v) |->
                 IF x.v[i].t \in {"undefined", "null"} THEN ""
                 ELSE TemplateString(x.v[i])], ",")
    [] OTHER -> "[object Object]"

\* obj[key] for an object value: the entry's value, undefined when missing
Get(obj, key) ==
  IF \E i \in 1..Len(obj.e) : obj.e[i].k = key
  THEN obj.e[CHOOSE i \in 1..Len(obj.e) : obj.e[i].k = key].v
  ELSE Undefined

\* the truthiness of a value in a condition
Truthy(x) ==
  CASE x.t \in {"undefined", "null"} -> FALSE
    [] x.t = "boolean" -> x.b
    [] x.t = "number" -> x.d # 0 /\ x.n # 0
    [] x.t = "string" -> x.s # ""
    [] OTHER -> TRUE

\* a flattening that puts the later arrays first
RECURSIVE Flatten_Reversed(_)
Flatten_Reversed(xss) ==
  IF xss = <<>> THEN <<>> ELSE Flatten_Reversed(Tail(xss)) \o Head(xss)

RECURSIVE Flatten(_)
Flatten(xss) ==
  IF xss = <<>> THEN <<>> ELSE Head(xss) \o Flatten(Tail(xss))

\* ------------------------------------------------------- query compilation

\* a selection without the test for an object with no keys
constructFieldSelection_NoEmptyTest(args) ==
  IF isNull(args) \/ isUndefined(args) THEN "*"
  ELSE Join([i \in 1..Len(args.e) |-> "c." \o args.e[i].k], ", ")

constructFieldSelection(args) ==
  IF isNull(args) \/ isUndefined(args) \/ objectIsEmpty(args) THEN "*"
  ELSE Join([i \in 1..Len(args.e) |-> "c." \o args.e[i].k], ", ")

\* One element of an in / notIn list, after map() and join()'s String().
InElement(v) ==
  IF isBoolean(v) \/ isNumber(v) THEN TemplateString(v)
  ELSE "'" \o TemplateString(v) \o "'"

\* a list joined with a comma and a space
InList_CommaSpace(value) ==
  IF value.t \in {"undefined", "null"} THEN "undefined"
  ELSE Join([i \in 1..Len(value.v) |-> InElement(value.v[i])], ", ")

InList(value) ==
  IF value.t \in {"undefined", "null"} THEN "undefined"
  ELSE Join([i \in 1..Len(value.v) |-> InElement(value.v[i])], ",")

\* the text with every single quote doubled
RECURSIVE EscapeQuotes(_)
EscapeQuotes(s) ==
  IF s = "" THEN ""
  ELSE (IF SubSeq(s, 1, 1) = "'" THEN "''" ELSE SubSeq(s, 1, 1))
         \o EscapeQuotes(SubSeq(s, 2, Len(s)))

\* a comparison that escapes the quotes of the value
Comparison_Escaped(field, op, value) ==
  IF isBoolean(value) \/ isNumber(value)
  THEN "c." \o field \o " " \o op \o " " \o TemplateString(value)
  ELSE "c." \o field \o " " \o op \o " '"
         \o EscapeQuotes(TemplateString(value)) \o "'"

\* a comparison that quotes every value
Comparison_AlwaysQuotes(field, op, value) ==
  "c." \o field \o " " \o op \o " '" \o TemplateString(value) \o "'"

Comparison(field, op, value) ==
  IF isBoolean(value) \/ isNumber(value)
  THEN "c." \o field \o " " \o op \o " " \o TemplateString(value)
  ELSE "c." \o field \o " " \o op \o " '" \o TemplateString(value) \o "'"

\* a comparison with 'INSENSITIVE' that never holds
Insensitive_Never(mode) == FALSE

\* mode === 'INSENSITIVE'
Insensitive(mode) == mode.t = "string" /\ mode.s = "INSENSITIVE"

\* a compiler that renders whatever key it is given
createFilter_RendersAnyKey(field, filterKey, mode, value) ==
  "c." \o field \o " " \o filterKey \o " '" \o TemplateString(value) \o "'"

\* an equals that follows the mode as the pattern operators do
createFilter_LowersEquals(field, filterKey, mode, value) ==
  IF Insensitive(mode)
  THEN "LOWER(c." \o field \o ") = LOWER('" \o TemplateString(value) \o "')"
  ELSE Comparison(field, "=", value)

createFilter(field, filterKey, mode, value) ==
  CASE filterKey = "contains" ->
         (IF Insensitive(mode)
          THEN "CONTAINS(LOWER(c." \o field \o "), LOWER('"
                 \o TemplateString(value) \o "'))"
          ELSE "CONTAINS(c." \o field \o ", '" \o TemplateString(value) \o "')")
    [] filterKey = "startsWith" ->
         (IF Insensitive(mode)
          THEN "STARTSWITH(LOWER(c." \o field \o "), LOWER('"
                 \o TemplateString(value) \o "'))"
          ELSE "STARTSWITH(c." \o field \o ", '" \o TemplateString(value) \o "')")
    [] filterKey = "endsWith" ->
         (IF Insensitive(mode)
          THEN "ENDSWITH(LOWER(c." \o field \o "), LOWER('"
                 \o TemplateString(value) \o "'))"
          ELSE "ENDSWITH(c." \o field \o ",'" \o TemplateString(value) \o "')")
    [] filterKey = "equals" -> Comparison(field, "=", value)
    [] filterKey = "not" -> Comparison(field, "!=", value)
    [] filterKey = "gt" -> Comparison(field, ">", value)
    [] filterKey = "gte" -> Comparison(field, ">=", value)
    [] filterKey = "lt" -> Comparison(field, "<", value)
    [] filterKey = "lte" -> Comparison(field, "<=", value)
    [] filterKey = "in" -> "c." \o field \o " IN (" \o InList(value) \o ")"
    [] filterKey = "notIn" -> "c." \o field \o " NOT IN (" \o InList(value) \o ")"
    [] OTHER -> ""

\* fragments that leave out the operators whose value is undefined or null
FieldFilters_SkipsAbsent(field, filters) ==
  LET m == Get(filters, "mode")
      mode == IF Truthy(m) THEN m ELSE Str("SENSITIVE")
  IN [i \in 1..Len(filters.e) |->
        IF filters.e[i].v.t \in {"undefined", "null"} THEN ""
        ELSE createFilter(field, filters.e[i].k, mode, filters.e[i].v)]

\* fragments whose mode is the one met so far among the field's keys
FieldFilters_ModeAsMet(field, filters) ==
  [i \in 1..Len(filters.e) |->
     createFilter(field, filters.e[i].k,
                  IF \E j \in 1..(i - 1) : filters.e[j].k = "mode"
                  THEN filters.e[CHOOSE j \in 1..(i - 1) :
                                   filters.e[j].k = "mode"].v
                  ELSE Str("SENSITIVE"),
                  filters.e[i].v)]

\* The fragments of one field of the where mapping, in key order.
FieldFilters(field, filters) ==
  LET m == Get(filters, "mode")
      mode == IF Truthy(m) THEN m ELSE Str("SENSITIVE")
  IN [i \in 1..Len(filters.e) |->
        createFilter(field, filters.e[i].k, mode, filters.e[i].v)]

\* a builder without the test for no conditions
buildWhereClause_BareWhere(args) ==
  IF isNull(args) \/ isUndefined(args) \/ objectIsEmpty(args) THEN ""
  ELSE LET all == Flatten([i \in 1..Len(args.e) |->
                             FieldFilters(args.e[i].k, args.e[i].v)])
           conditions == SelectSeq(all, isNonEmptyString)
       IN Join(<<"WHERE", Join(conditions, " AND ")>>, " ")

buildWhereClause(args) ==
  IF isNull(args) \/ isUndefined(args) \/ objectIsEmpty(args) THEN ""
  ELSE LET all == Flatten([i \in 1..Len(args.e) |->
                             FieldFilters(args.e[i].k, args.e[i].v)])
           conditions == SelectSeq(all, isNonEmptyString)
       IN IF isEmptyArray(conditions) THEN ""
          ELSE Join(<<"WHERE", Join(conditions, " AND ")>>, " ")

\* an ordering that leaves the directions out
constructOrderByClause_NoDirection(args) ==
  IF isNull(args) \/ isUndefined(args) \/ objectIsEmpty(args) THEN ""
  ELSE "ORDER BY "
         \o Join([i \in 1..Len(args.e) |-> "c." \o args.e[i].k], ", ")

constructOrderByClause(args) ==
  IF isNull(args) \/ isUndefined(args) \/ objectIsEmpty(args) THEN ""
  ELSE "ORDER BY "
         \o Join([i \in 1..Len(args.e) |->
                    "c." \o args.e[i].k \o " " \o TemplateString(args.e[i].v)],
                 ", ")

\* an assembly that keeps the empty clauses
buildQueryFindMany_KeepsEmpty(dto) ==
  Join(<<"SELECT", constructFieldSelection(dto.select), "FROM c",
         buildWhereClause(dto.where), constructOrderByClause(dto.orderBy)>>,
       " ")

buildQueryFindMany(dto) ==
  LET fieldsSelected == constructFieldSelection(dto.select)
      whereClause == buildWhereClause(dto.where)
      orderByClause == constructOrderByClause(dto.orderBy)
      clauses == SelectSeq(<<"SELECT", fieldsSelected, "FROM c",
                             whereClause, orderByClause>>, isNonEmptyString)
  IN Join(clauses, " ")

\* ------------------------------------------------------------------ bounds

\* findMany calls of one run of Spec, any of them in flight at the same time
MaxCalls == 2

\* findMany calls of one run of SpecPaging
MaxPagingCalls == 3

Calls == 1..(IF MaxCalls > MaxPagingCalls THEN MaxCalls ELSE MaxPagingCalls)

\* ------------------------------------------------------------------ inputs

ModelOptions ==
  {[database |-> "db", container |-> "users",
    connectionStringSetting |-> Undefined],
   [database |-> "db", container |-> "posts",
    connectionStringSetting |-> Str("MY_CONNECTION")]}

Takes == {Undefined, Null, Num(0), Num(-1), Half(3), NaN, Num(1), Num(100)}

Cursors == {Undefined, Str(""), Str("tok")}

NoQuery == [where |-> Undefined, select |-> Undefined, orderBy |-> Undefined]

UserQuery ==
  [where |-> Obj(<<Entry("age", Obj(<<Entry("gte", Num(18))>>)),
                   Entry("firstName",
                         Obj(<<Entry("startsWith", Str("A")),
                               Entry("mode", Str("INSENSITIVE"))>>))>>),
   select |-> Obj(<<Entry("firstName", Bool(TRUE))>>),
   orderBy |-> Obj(<<Entry("lastName", Str("ASC"))>>)]

FindManyArgs(q, take, nextCursor) ==
  [where |-> q.where, select |-> q.select, orderBy |-> q.orderBy,
   take |-> take, nextCursor |-> nextCursor]

\* the arguments callers pass: every take with no query and no cursor, and
\* the user query with every cursor
Requests ==
  {FindManyArgs(NoQuery, t, Undefined) : t \in Takes}
    \cup {FindManyArgs(UserQuery, Num(1), c) : c \in Cursors}

\* what fetchNext() settles with
Fulfilled(resources, continuationToken) ==
  [t |-> "fulfilled",
   value |-> [resources |-> resources, continuationToken |-> continuationToken]]
Rejected(error) == [t |-> "rejected", error |-> error]

Items == Arr(<<Str("a"), Str("b")>>)

Replies ==
  {Fulfilled(Items, c) : c \in Cursors}
    \cup {Fulfilled(Arr(<<>>), Undefined)}
    \cup {Fulfilled(r, Str("tok")) : r \in {Undefined, Str("oops")}}
    \cup {Rejected(e) : e \in {Obj(<<Entry("message", Str("boom"))>>), Undefined}}

\* the smaller inputs of SpecPaging: pages asked for with every cursor, one
\* call with a bad take, and fetches that give a page or fail
PagingRequests ==
  {FindManyArgs(NoQuery, Undefined, c) : c \in Cursors}
    \cup {FindManyArgs(NoQuery, Num(0), Undefined)}

PagingReplies ==
  {Fulfilled(Items, c) : c \in Cursors}
    \cup {Rejected(Obj(<<Entry("message", Str("boom"))>>))}

\* ------------------------------------------------------------------- state

VARIABLES
  instance,   \* the BaseModel instance's fields
  created,    \* the instance's fields right after construction
  pc,         \* per call: idle, awaiting, returned or failed
  args,       \* per call: the FindManyArgs it was made with
  origin,     \* per call: the earlier call whose nextCursor it passes, or 0
  sent,       \* per call: the requests the collaborator received from it
  reply,      \* per call: what the collaborator's fetch settled with
  outcome,    \* per call: the response returned or the error thrown
  stages,     \* per call: the pipeline stages it went through, in order
  compiled    \* the query function applied last, its arguments and its text

vars ==
  <<instance, created, pc, args, origin, sent, reply, outcome, stages, compiled>>

None == [t |-> "none"]
Returned(response) == [t |-> "returned", value |-> response]
Thrown(error) == [t |-> "thrown", error |-> error]

\* new Error(message)
Error(message) == [name |-> "Error", message |-> message, cause |-> Undefined]

defaultFields == [id |-> TRUE, timestamp |-> TRUE]

\* new BaseModel(options)
BaseModel(options) ==
  [client |-> [database |-> options.database, container |-> options.container],
   connectionStringSetting |->
     IF Truthy(options.connectionStringSetting)
     THEN options.connectionStringSetting
     ELSE Str("COSMOS_CONNECTION_STRING"),
   fields |-> defaultFields,
   options |-> options]

Init ==
  /\ instance \in {BaseModel(o) : o \in ModelOptions}
  /\ created = instance
  /\ pc = [p \in Calls |-> "idle"]
  /\ args = [p \in Calls |-> None]
  /\ origin = [p \in Calls |-> 0]
  /\ sent = [p \in Calls |-> <<>>]
  /\ reply = [p \in Calls |-> None]
  /\ outcome = [p \in Calls |-> None]
  /\ stages = [p \in Calls |-> <<>>]
  /\ compiled = None

\* ----------------------------------------------------------------- findMany

Pipeline == <<"Validate", "Compile", "Assemble", "Execute", "Translate">>

\* min(0) for min(1)
PositiveInteger_MinZero(take) == take.t = "number" /\ take.d = 1 /\ take.n >= 0

\* z.number().int().min(1).safeParse(take).success
PositiveInteger(take) == take.t = "number" /\ take.d = 1 /\ take.n >= 1

\* the validation of "take" throws
RejectsTake(take) ==
  ~isNull(take) /\ ~isUndefined(take) /\ ~PositiveInteger(take)

TakeError(take) ==
  Error("Please make sure \"take\" is a positive integer. You provided "
          \o TemplateString(take) \o " ")

\* maxItemCount: take ?? 100
FetchRequest_DefaultsTake(container, a) ==
  [container |-> container,
   query |-> buildQueryFindMany(a),
   options |-> [continuationToken |-> a.nextCursor,
                maxItemCount |-> IF a.take.t \in {"undefined", "null"}
                                 THEN Num(100) ELSE a.take]]

\* continuationToken: nextCursor ?? ''
FetchRequest_EmptyCursor(container, a) ==
  [container |-> container,
   query |-> buildQueryFindMany(a),
   options |-> [continuationToken |-> IF a.nextCursor.t \in {"undefined", "null"}
                                      THEN Str("") ELSE a.nextCursor,
                maxItemCount |-> a.take]]

\* container.items.query(query, {continuationToken, maxItemCount}).fetchNext()
FetchRequest(container, a) ==
  [container |-> container,
   query |-> buildQueryFindMany(a),
   options |-> [continuationToken |-> a.nextCursor, maxItemCount |-> a.take]]

\* result.error?.message
ErrorMessage(error) ==
  IF error.t \in {"undefined", "null"} THEN Undefined ELSE Get(error, "message")

\* nextCursor: continuationToken || undefined
Translate_DropsEmptyCursor(r) ==
  IF r.t = "rejected"
  THEN Thrown(Error("Failed to retrieve items form db. "
                      \o TemplateString(ErrorMessage(r.error))))
  ELSE IF ~isArray(r.value.resources)
  THEN Thrown(Error("Retrieved data from db, but received "
                      \o TypeOf(r.value.resources)
                      \o " instead of a list of items"))
  ELSE Returned([items |-> r.value.resources,
                 nextCursor |-> IF Truthy(r.value.continuationToken)
                                THEN r.value.continuationToken ELSE Undefined])

\* the failure's message left out of the error thrown
Translate_LosesMessage(r) ==
  IF r.t = "rejected"
  THEN Thrown(Error("Failed to retrieve items form db. "))
  ELSE IF ~isArray(r.value.resources)
  THEN Thrown(Error("Retrieved data from db, but received "
                      \o TypeOf(r.value.resources)
                      \o " instead of a list of items"))
  ELSE Returned([items |-> r.value.resources,
                 nextCursor |-> r.value.continuationToken])

\* no isArray check: whatever resources holds is returned as the items
Translate_Unchecked(r) ==
  IF r.t = "rejected"
  THEN Thrown(Error("Failed to retrieve items form db. "
                      \o TemplateString(ErrorMessage(r.error))))
  ELSE Returned([items |-> r.value.resources,
                 nextCursor |-> r.value.continuationToken])

\* an empty page taken for a missing one
Translate_EmptyPageFails(r) ==
  IF r.t = "rejected"
  THEN Thrown(Error("Failed to retrieve items form db. "
                      \o TemplateString(ErrorMessage(r.error))))
  ELSE IF ~isArray(r.value.resources) \/ r.value.resources.v = <<>>
  THEN Thrown(Error("Retrieved data from db, but received "
                      \o TypeOf(r.value.resources)
                      \o " instead of a list of items"))
  ELSE Returned([items |-> r.value.resources,
                 nextCursor |-> r.value.continuationToken])

\* what findMany does with the settled fetch: throws or returns the response
Translate(r) ==
  IF r.t = "rejected"
  THEN Thrown(Error("Failed to retrieve items form db. "
                      \o TemplateString(ErrorMessage(r.error))))
  ELSE IF ~isArray(r.value.resources)
  THEN Thrown(Error("Retrieved data from db, but received "
                      \o TypeOf(r.value.resources)
                      \o " instead of a list of items"))
  ELSE Returned([items |-> r.value.resources,
                 nextCursor |-> r.value.continuationToken])

\* The caller makes call p with arguments a.  from names the earlier call
\* whose returned nextCursor the caller passes on as a.nextCursor (0: the
\* cursor is the caller's own).
CallerPasses(p, a, from) ==
  /\ pc[p] = "idle"
  /\ \A q \in Calls : q < p => pc[q] # "idle"
  /\ from # 0 =>
       /\ pc[from] = "returned"
       /\ a.nextCursor = outcome[from].value.nextCursor
  /\ args' = [args EXCEPT ![p] = a]
  /\ origin' = [origin EXCEPT ![p] = from]

\* findMany(a) up to its await: it validates take and throws, or builds the
\* query, starts the fetch and suspends.
Started(p, a) ==
  IF RejectsTake(a.take)
  THEN /\ pc' = [pc EXCEPT ![p] = "failed"]
       /\ outcome' = [outcome EXCEPT ![p] = Thrown(TakeError(a.take))]
       /\ stages' = [stages EXCEPT ![p] = SubSeq(Pipeline, 1, 1)]
       /\ UNCHANGED sent
  ELSE /\ pc' = [pc EXCEPT ![p] = "awaiting"]
       /\ sent' = [sent EXCEPT
                     ![p] = Append(@, FetchRequest(instance.client, a))]
       /\ stages' = [stages EXCEPT ![p] = SubSeq(Pipeline, 1, 4)]
       /\ UNCHANGED outcome

findManyCall_KeepsQuery(p, a, from) ==
  /\ CallerPasses(p, a, from)
  /\ Started(p, a)
  /\ instance' = [instance EXCEPT
                    !.connectionStringSetting = Str(buildQueryFindMany(a))]
  /\ UNCHANGED <<created, reply, compiled>>

findManyCall(p, a, from) ==
  /\ CallerPasses(p, a, from)
  /\ Started(p, a)
  /\ UNCHANGED <<instance, created, reply, compiled>>

\* findMany after its await, the fetch of call p having settled with r: it
\* throws or returns the response.
Finished(p, r) ==
  /\ reply' = [reply EXCEPT ![p] = r]
  /\ outcome' = [outcome EXCEPT ![p] = Translate(r)]
  /\ pc' = [pc EXCEPT
              ![p] = IF Translate(r).t = "returned" THEN "returned" ELSE "failed"]
  /\ stages' = [stages EXCEPT
                  ![p] = IF r.t = "rejected" THEN @ ELSE Append(@, Pipeline[5])]
  /\ UNCHANGED sent

\* a retry loop: a failed fetch is started again
findManyResume_Retries(p, r) ==
  /\ pc[p] = "awaiting"
  /\ IF r.t = "rejected" /\ Len(sent[p]) < 2
     THEN /\ sent' = [sent EXCEPT ![p] = Append(@, sent[p][1])]
          /\ UNCHANGED <<reply, outcome, pc, stages>>
     ELSE Finished(p, r)
  /\ UNCHANGED <<instance, created, args, origin, compiled>>

\* a result kept on the instance: a call resuming reads the reply of the call
\* that settled last
findManyResume_SharedResult(p, r) ==
  /\ pc[p] = "awaiting"
  /\ LET done == {q \in Calls : reply[q] # None}
         last == IF done = {} THEN r
                 ELSE reply[CHOOSE q \in done : \A o \in done : o <= q]
     IN /\ reply' = [reply EXCEPT ![p] = r]
        /\ outcome' = [outcome EXCEPT ![p] = Translate(last)]
        /\ pc' = [pc EXCEPT
                    ![p] = IF Translate(last).t = "returned"
                           THEN "returned" ELSE "failed"]
        /\ stages' = [stages EXCEPT
                        ![p] = IF last.t = "rejected" THEN @
                               ELSE Append(@, Pipeline[5])]
  /\ UNCHANGED <<instance, created, args, origin, sent, compiled>>

findManyResume(p, r) ==
  /\ pc[p] = "awaiting"
  /\ Finished(p, r)
  /\ UNCHANGED <<instance, created, args, origin, sent, compiled>>

Call ==
  \E p \in 1..MaxCalls, a \in Requests, from \in 0..MaxCalls :
    /\ from < p
    /\ findManyCall(p, a, from)

Resume == \E p \in 1..MaxCalls, r \in Replies : findManyResume(p, r)

Next == Call \/ Resume

Spec == Init /\ [][Next]_vars

PagingCall ==
  \E p \in 1..MaxPagingCalls, a \in PagingRequests, from \in 0..MaxPagingCalls :
    /\ from < p
    /\ findManyCall(p, a, from)

PagingResume ==
  \E p \in 1..MaxPagingCalls, r \in PagingReplies : findManyResume(p, r)

NextPaging == PagingCall \/ PagingResume

SpecPaging == Init /\ [][NextPaging]_vars

\* --------------------------------------------------------------- page sizes

\* "This will return maximum of 100 items by default"
ReadmeDefaultTake == 100

PageSizes == {0, 2, ReadmeDefaultTake, ReadmeDefaultTake + 1}

Page(n) == Arr([i \in 1..n |-> Str("a")])

\* calls with and without a take
PageRequests ==
  {FindManyArgs(NoQuery, t, Undefined) : t \in {Undefined, Num(1), Num(100)}}
    \cup {FindManyArgs(UserQuery, Undefined, Undefined)}

\* a collaborator that keeps to maxItemCount when it is given one, and is
\* given no ceiling otherwise
PageReplies(request) ==
  {Fulfilled(Page(n), c) :
     n \in {k \in PageSizes :
              request.options.maxItemCount.t = "number"
                => k <= request.options.maxItemCount.n},
     c \in {Undefined, Str("tok")}}
    \cup {Rejected(Obj(<<Entry("message", Str("boom"))>>))}

PageCall ==
  \E p \in 1..MaxCalls, a \in PageRequests : findManyCall(p, a, 0)

PageResume ==
  \E p \in 1..MaxCalls :
    /\ pc[p] = "awaiting"
    /\ \E r \in PageReplies(sent[p][1]) : findManyResume(p, r)

NextPage == PageCall \/ PageResume

SpecPage == Init /\ [][NextPage]_vars

\* ------------------------------------------------- the query functions alone

\* operator entries of one where mapping, over all its fields
MaxFilters == 3

FilterFields == {"age", "firstName", "lastName"}

RecognizedKeys ==
  {"equals", "not", "gt", "gte", "lt", "lte", "in", "notIn",
   "contains", "startsWith", "endsWith"}

FilterKeys == RecognizedKeys \cup {"mode", "like"}

Modes == {Str("SENSITIVE"), Str("INSENSITIVE")}

ScalarValues ==
  {Str("A"), Str("it's"), Num(25), Num(-3), Half(3), Bool(TRUE), Bool(FALSE),
   Date("Tue Dec 31 2024 00:00:00 GMT+0000 (Coordinated Universal Time)"),
   Undefined, Null}

ListValues ==
  {Arr(<<>>), Arr(<<Num(25), Num(30), Num(35)>>),
   Arr(<<Str("Alice"), Str("Bob")>>),
   Arr(<<Bool(TRUE), Str("x"), Num(1)>>)}

\* the values a filter key is given
ValuesOf(filterKey) ==
  IF filterKey \in {"in", "notIn"} THEN ListValues
  ELSE IF filterKey = "mode" THEN Modes
  ELSE ScalarValues

\* the entries the where mappings are made of
FilterEntries ==
  {Entry("gte", Num(18)), Entry("startsWith", Str("A")),
   Entry("endsWith", Str("z")), Entry("equals", Undefined),
   Entry("contains", Null),
   Entry("in", Arr(<<Num(25), Num(30), Num(35)>>)), Entry("in", Arr(<<>>)),
   Entry("notIn", Arr(<<Str("Alice"), Str("Bob")>>)),
   Entry("mode", Str("INSENSITIVE")), Entry("mode", Str("SENSITIVE")),
   Entry("like", Str("x"))}

\* the filter objects of exactly n entries: no key twice
FiltersOf(n) ==
  {Obj(e) : e \in {f \in [1..n -> FilterEntries] :
                     \A i, j \in 1..n : i # j => f[i].k # f[j].k}}

\* the where arguments that are no mapping of fields
NoWheres == {Undefined, Null, Obj(<<>>)}

\* ordered pairs of two different fields
FieldPairs == {h \in FilterFields \X FilterFields : h[1] # h[2]}

ApplyCreateFilter ==
  /\ compiled = None
  /\ \E field \in FilterFields, filterKey \in FilterKeys, mode \in Modes :
       \E value \in ValuesOf(filterKey) :
         compiled' = [fn |-> "createFilter", field |-> field,
                      filterKey |-> filterKey, mode |-> mode, value |-> value,
                      text |-> createFilter(field, filterKey, mode, value)]
  /\ UNCHANGED <<instance, created, pc, args, origin, sent, reply, outcome, stages>>

Built(where) ==
  compiled' = [fn |-> "buildWhereClause", where |-> where,
               text |-> buildWhereClause(where)]

\* buildWhereClause applied to no mapping, or to a mapping of one or two
\* fields with at most MaxFilters entries in all
ApplyBuildWhereClause ==
  /\ compiled = None
  /\ \/ \E where \in NoWheres : Built(where)
     \/ \E n \in 0..MaxFilters, f \in FilterFields :
          \E x \in FiltersOf(n) : Built(Obj(<<Entry(f, x)>>))
     \/ \E n \in 0..MaxFilters, fg \in FieldPairs :
          \E k \in 0..(MaxFilters - n) :
            \E x \in FiltersOf(n), y \in FiltersOf(k) :
              Built(Obj(<<Entry(fg[1], x), Entry(fg[2], y)>>))
  /\ UNCHANGED <<instance, created, pc, args, origin, sent, reply, outcome, stages>>

\* keys of one select or orderBy mapping
MaxKeys == 3

SelectFields == {"firstName", "lastName", "age"}

\* the sequences of n entries over the fields and the values: no field twice
EntriesOf(n, fields, values) ==
  {e \in [1..n -> {Entry(f, v) : f \in fields, v \in values}] :
     \A i, j \in 1..n : i # j => e[i].k # e[j].k}

\* the select arguments: absent, null, and the mappings of up to MaxKeys
\* fields to a boolean
Selects ==
  {Undefined, Null}
    \cup UNION {{Obj(e) : e \in EntriesOf(n, SelectFields,
                                          {Bool(TRUE), Bool(FALSE)})} :
                  n \in 0..MaxKeys}

ApplyConstructFieldSelection ==
  /\ compiled = None
  /\ \E select \in Selects :
       compiled' = [fn |-> "constructFieldSelection", select |-> select,
                    text |-> constructFieldSelection(select)]
  /\ UNCHANGED <<instance, created, pc, args, origin, sent, reply, outcome, stages>>

OrderFields == {"lastName", "firstName", "age"}

\* the orderBy arguments: absent, null, and the mappings of up to MaxKeys
\* fields to a direction
OrderBys ==
  {Undefined, Null}
    \cup UNION {{Obj(e) : e \in EntriesOf(n, OrderFields,
                                          {Str("ASC"), Str("DESC")})} :
                  n \in 0..MaxKeys}

ApplyConstructOrderByClause ==
  /\ compiled = None
  /\ \E orderBy \in OrderBys :
       compiled' = [fn |-> "constructOrderByClause", orderBy |-> orderBy,
                    text |-> constructOrderByClause(orderBy)]
  /\ UNCHANGED <<instance, created, pc, args, origin, sent, reply, outcome, stages>>

\* the where, select and orderBy arguments the assembled queries are made of
QueryWheres ==
  {Undefined, Null, Obj(<<>>), UserQuery.where,
   Obj(<<Entry("age", Obj(<<>>))>>),
   Obj(<<Entry("firstName", Obj(<<Entry("like", Str("x"))>>))>>),
   Obj(<<Entry("firstName", Obj(<<Entry("equals", Str("it's"))>>))>>),
   Obj(<<Entry("firstName", Obj(<<Entry("contains", Str("a  b"))>>))>>)}

QuerySelects ==
  {Undefined, Null, Obj(<<>>), Obj(<<Entry("firstName", Bool(TRUE))>>),
   Obj(<<Entry("id", Bool(TRUE)), Entry("firstName", Bool(TRUE))>>)}

QueryOrderBys ==
  {Undefined, Null, Obj(<<>>), Obj(<<Entry("lastName", Str("ASC"))>>),
   Obj(<<Entry("lastName", Str("ASC")), Entry("firstName", Str("DESC"))>>)}

ApplyBuildQueryFindMany ==
  /\ compiled = None
  /\ \E where \in QueryWheres, select \in QuerySelects,
        orderBy \in QueryOrderBys :
       LET dto == [where |-> where, select |-> select, orderBy |-> orderBy]
       IN compiled' = [fn |-> "buildQueryFindMany", dto |-> dto,
                       text |-> buildQueryFindMany(dto)]
  /\ UNCHANGED <<instance, created, pc, args, origin, sent, reply, outcome, stages>>

NextCompile ==
  \/ ApplyCreateFilter
  \/ ApplyBuildWhereClause
  \/ ApplyConstructFieldSelection
  \/ ApplyConstructOrderByClause
  \/ ApplyBuildQueryFindMany

SpecCompile == Init /\ [][NextCompile]_vars

\* ------------------------------------------------------------------ claims

\* s holds sub as a run of consecutive characters
Contains(s, sub) ==
  \E i \in 1..(Len(s) - Len(sub) + 1) : SubSeq(s, i, i + Len(sub) - 1) = sub

\* call p was made and findMany threw while validating take
RejectedAtValidation(p) ==
  /\ pc[p] = "failed"
  /\ reply[p] = None
  /\ outcome[p].t = "thrown"
  /\ Contains(outcome[p].error.message, "\"take\" is a positive integer")

\* take is present and is not an integer >= 1
BadTake(take) ==
  /\ take # Undefined
  /\ take # Null
  /\ ~(take.t = "number" /\ take.d = 1 /\ take.n >= 1)

\* C1: findMany rejects a call with the validation error exactly when take is
\* present and is not an integer >= 1 (0, -1 and 1.5 are rejected, 1 and 100
\* pass), and a rejected call has sent nothing to the collaborator.
C1_TakeValidation ==
  \A p \in Calls :
    pc[p] # "idle" =>
      /\ RejectedAtValidation(p) <=> BadTake(args[p].take)
      /\ args[p].take \in {Num(0), Num(-1), Half(3)} => RejectedAtValidation(p)
      /\ args[p].take \in {Num(1), Num(100)} => ~RejectedAtValidation(p)
      /\ RejectedAtValidation(p) => sent[p] = <<>>

C1_Witness ==
  /\ RejectedAtValidation(1) /\ args[1].take = Half(3) /\ sent[1] = <<>>
  /\ pc[2] = "awaiting" /\ args[2].take = Num(100)

\* C2: when the fetch succeeds with a list L and a continuation token t,
\* findMany returns {items: L, nextCursor: t}: the same elements in the same
\* order, nextCursor absent exactly when t is absent, an empty-string token
\* returned as an empty string.
C2_PageReturnedUnchanged ==
  \A p \in Calls :
    (reply[p] # None /\ reply[p].t = "fulfilled"
       /\ reply[p].value.resources.t = "array") =>
      /\ pc[p] = "returned"
      /\ outcome[p].t = "returned"
      /\ outcome[p].value.items.t = "array"
      /\ outcome[p].value.items.v = reply[p].value.resources.v
      /\ outcome[p].value.nextCursor = reply[p].value.continuationToken
      /\ (outcome[p].value.nextCursor = Undefined)
           <=> (reply[p].value.continuationToken = Undefined)

C2_Witness ==
  /\ reply[1] = Fulfilled(Items, Str(""))
  /\ outcome[1] = Returned([items |-> Items, nextCursor |-> Str("")])
  /\ reply[2] = Fulfilled(Items, Undefined)
  /\ outcome[2].t = "returned"
  /\ outcome[2].value.nextCursor = Undefined

\* the query text of the two queries callers make
ExpectedQuery(a) ==
  IF a.where = Undefined /\ a.select = Undefined /\ a.orderBy = Undefined
  THEN "SELECT * FROM c"
  ELSE "SELECT c.firstName FROM c WHERE c.age >= 18 AND "
         \o "STARTSWITH(LOWER(c.firstName), LOWER('A')) ORDER BY c.lastName ASC"

\* C3: every call that passes the validation of take sends the collaborator
\* the query text assembled from its where/select/orderBy, its cursor
\* unmodified as continuationToken (absent when no cursor was given) and its
\* take as maxItemCount.
C3_RequestForwarded ==
  \A p \in Calls :
    (pc[p] # "idle" /\ ~RejectedAtValidation(p)) =>
      /\ sent[p] # <<>>
      /\ sent[p][1].query = buildQueryFindMany(args[p])
      /\ sent[p][1].query = ExpectedQuery(args[p])
      /\ sent[p][1].options.continuationToken = args[p].nextCursor
      /\ sent[p][1].options.maxItemCount = args[p].take
      /\ sent[p][1].container = created.client

C3_Witness ==
  /\ args[1] = FindManyArgs(UserQuery, Num(1), Str("tok"))
  /\ sent[1] = <<[container |-> instance.client,
                  query |-> ExpectedQuery(args[1]),
                  options |-> [continuationToken |-> Str("tok"),
                               maxItemCount |-> Num(1)]]>>
  /\ args[2] = FindManyArgs(NoQuery, Undefined, Undefined)
  /\ sent[2] # <<>>
  /\ sent[2][1].options = [continuationToken |-> Undefined,
                           maxItemCount |-> Undefined]

\* the fetch of call p failed
FetchFailed(p) == reply[p] # None /\ reply[p].t = "rejected"

\* the fetch of call p succeeded with resources that are not a list
FetchMalformed(p) ==
  /\ reply[p] # None
  /\ reply[p].t = "fulfilled"
  /\ reply[p].value.resources.t # "array"

\* C4 as stated: when the fetch fails, findMany fails with an error that
\* keeps the original failure as its cause and includes the query text that
\* was attempted.
C4_CauseAndQueryKept ==
  \A p \in Calls :
    FetchFailed(p) =>
      /\ outcome[p].t = "thrown"
      /\ outcome[p].error.cause = reply[p].error
      /\ Contains(outcome[p].error.message, sent[p][1].query)

\* the text of the failure's message: "undefined" when the failure is absent
\* or carries no message
FailureText(error) ==
  IF error.t = "object" /\ \E i \in 1..Len(error.e) : error.e[i].k = "message"
  THEN LET m == error.e[CHOOSE i \in 1..Len(error.e) : error.e[i].k = "message"].v
       IN IF m.t = "string" THEN m.s ELSE "undefined"
  ELSE "undefined"

\* C4 amended: when the fetch fails, findMany fails with a plain Error whose
\* message is "Failed to retrieve items form db. " followed by the original
\* failure's message; the original failure is not attached as a cause and the
\* query text is not added; the failure reaches the caller and no response is
\* returned.
C4_FailureWrappedByMessage ==
  \A p \in Calls :
    FetchFailed(p) =>
      /\ pc[p] = "failed"
      /\ outcome[p].t = "thrown"
      /\ outcome[p].error.name = "Error"
      /\ outcome[p].error.message
           = "Failed to retrieve items form db. " \o FailureText(reply[p].error)
      /\ outcome[p].error.cause = Undefined

C4_Witness ==
  /\ FetchFailed(1)
  /\ reply[1].error = Obj(<<Entry("message", Str("boom"))>>)
  /\ outcome[1] = Thrown([name |-> "Error",
                          message |-> "Failed to retrieve items form db. boom",
                          cause |-> Undefined])
  /\ FetchFailed(2)
  /\ reply[2].error = Undefined
  /\ pc[2] = "failed"

\* C5 as stated: when the fetch succeeds with resources that are not a list,
\* findMany fails with an error of a kind of its own, not the kind of the
\* store-execution error nor of the invalid-take error, and returns no items.
C5_MalformedKindDistinct ==
  \A p \in Calls :
    FetchMalformed(p) =>
      /\ outcome[p].t = "thrown"
      /\ \A q \in Calls :
           (FetchFailed(q) \/ RejectedAtValidation(q)) =>
             outcome[p].error.name # outcome[q].error.name

\* C5 amended: when the fetch succeeds with resources that are not a list,
\* findMany returns no items and fails with a plain Error whose message is
\* "Retrieved data from db, but received <typeof resources> instead of a list
\* of items"; the error has the same kind (Error) as the store-execution and
\* invalid-take errors and differs from them by its message only.
C5_MalformedDistinctByMessage ==
  \A p \in Calls :
    FetchMalformed(p) =>
      /\ pc[p] = "failed"
      /\ outcome[p].t = "thrown"
      /\ outcome[p].error.name = "Error"
      /\ outcome[p].error.message \in
           {"Retrieved data from db, but received undefined instead of a list of items",
            "Retrieved data from db, but received string instead of a list of items"}
      /\ Contains(outcome[p].error.message, reply[p].value.resources.t)
      /\ \A q \in Calls :
           (FetchFailed(q) \/ RejectedAtValidation(q)) =>
             /\ outcome[q].error.name = outcome[p].error.name
             /\ outcome[q].error.message # outcome[p].error.message

C5_Witness ==
  /\ FetchMalformed(1)
  /\ reply[1].value.resources = Str("oops")
  /\ outcome[1].t = "thrown"
  /\ FetchFailed(2)
  /\ outcome[2].t = "thrown"

\* C6: every call whose take passes validation issues exactly one page-fetch
\* request, and no call ever issues more than one: a failed fetch or a
\* malformed response is followed by no second request.
C6_SingleFetch ==
  \A p \in Calls :
    /\ Len(sent[p]) <= 1
    /\ (pc[p] # "idle" /\ ~RejectedAtValidation(p)) => Len(sent[p]) = 1
    /\ (pc[p] = "idle" \/ RejectedAtValidation(p)) => Len(sent[p]) = 0

C6_Witness ==
  /\ FetchFailed(1) /\ pc[1] = "failed" /\ Len(sent[1]) = 1
  /\ FetchMalformed(2) /\ pc[2] = "failed" /\ Len(sent[2]) = 1

\* C7: a call goes through Validate, Compile, Assemble, Execute, Translate in
\* that order without revisiting or skipping a stage, and ends either with a
\* response returned after all five stages (an empty page is a response with
\* items = [], not an error) or with an error thrown at the stage whose
\* contract was violated and no items returned.
C7_LinearPipeline ==
  \A p \in Calls :
    /\ Len(stages[p]) <= Len(Pipeline)
    /\ stages[p] = SubSeq(Pipeline, 1, Len(stages[p]))
    /\ pc[p] = "idle" => stages[p] = <<>> /\ outcome[p] = None
    /\ pc[p] = "awaiting" => Len(stages[p]) = 4 /\ outcome[p] = None
    /\ pc[p] = "returned" =>
         /\ stages[p] = Pipeline
         /\ outcome[p].t = "returned"
         /\ outcome[p].value.items.t = "array"
    /\ pc[p] = "failed" =>
         /\ outcome[p].t = "thrown"
         /\ stages[p][Len(stages[p])]
              = (IF RejectedAtValidation(p) THEN "Validate"
                 ELSE IF FetchFailed(p) THEN "Execute" ELSE "Translate")
         /\ stages[p] = Pipeline => FetchMalformed(p)
    /\ (reply[p] # None /\ reply[p].t = "fulfilled"
          /\ reply[p].value.resources = Arr(<<>>)) =>
         /\ pc[p] = "returned"
         /\ outcome[p].value.items = Arr(<<>>)

C7_Witness ==
  /\ pc[1] = "returned"
  /\ reply[1] = Fulfilled(Arr(<<>>), Undefined)
  /\ outcome[1].value.items = Arr(<<>>)
  /\ stages[1] = Pipeline
  /\ pc[2] = "failed"
  /\ FetchFailed(2)
  /\ stages[2] = <<"Validate", "Compile", "Assemble", "Execute">>

\* what call p's own arguments and own reply make of it
OwnRequest(p) ==
  <<[container |-> created.client,
     query |-> ExpectedQuery(args[p]),
     options |-> [continuationToken |-> args[p].nextCursor,
                  maxItemCount |-> args[p].take]]>>

OwnOutcome(p) ==
  IF FetchFailed(p)
  THEN /\ outcome[p].t = "thrown"
       /\ outcome[p].error.message
            = "Failed to retrieve items form db. " \o FailureText(reply[p].error)
  ELSE IF FetchMalformed(p)
  THEN /\ outcome[p].t = "thrown"
       /\ outcome[p].error.message
            = "Retrieved data from db, but received "
                \o reply[p].value.resources.t \o " instead of a list of items"
  ELSE outcome[p] = Returned([items |-> reply[p].value.resources,
                              nextCursor |-> reply[p].value.continuationToken])

\* C8: with calls running concurrently on one model instance, under every
\* interleaving of their suspensions, each call sends the query, cursor and
\* take of its own arguments and returns or fails with the outcome of its own
\* reply, never another call's.
C8_CallsIsolated ==
  \A p \in Calls :
    /\ pc[p] = "awaiting" => sent[p] = OwnRequest(p) /\ outcome[p] = None
    /\ reply[p] # None => sent[p] = OwnRequest(p) /\ OwnOutcome(p)
    /\ RejectedAtValidation(p) =>
         Contains(outcome[p].error.message,
                  "You provided " \o TemplateString(args[p].take) \o " ")

C8_Witness ==
  /\ pc[1] = "awaiting"
  /\ args[1] = FindManyArgs(UserQuery, Num(1), Str("tok"))
  /\ pc[2] = "returned"
  /\ args[2] = FindManyArgs(NoQuery, Num(100), Undefined)
  /\ reply[2] = Fulfilled(Items, Str(""))
  /\ outcome[2] = Returned([items |-> Items, nextCursor |-> Str("")])

\* C9: no findMany call, successful or failing, changes the container handle
\* or any other field of the model instance: after any sequence of calls the
\* instance is as it was right after construction.
C9_InstanceUnchanged ==
  /\ instance = created
  /\ instance \in {BaseModel(o) : o \in ModelOptions}

C9_Witness ==
  /\ pc[1] = "returned"
  /\ pc[2] = "failed"
  /\ instance.client = [database |-> "db", container |-> "posts"]
  /\ instance.connectionStringSetting = Str("MY_CONNECTION")
  /\ instance = created

\* C10: when a call returns nextCursor = t and the caller passes t as the
\* cursor of a later call, the collaborator receives in that later call a
\* continuationToken equal to the token it produced in the earlier call,
\* whatever happened in the calls in between.
C10_CursorRoundTrip ==
  \A q \in Calls :
    (origin[q] # 0 /\ sent[q] # <<>>) =>
      /\ reply[origin[q]].t = "fulfilled"
      /\ sent[q][1].options.continuationToken
           = reply[origin[q]].value.continuationToken

C10_Witness ==
  /\ origin[3] = 1
  /\ reply[1] = Fulfilled(Items, Str(""))
  /\ FetchFailed(2)
  /\ sent[3] # <<>>
  /\ sent[3][1].options.continuationToken = Str("")

\* C11: a findMany call made with no take returns at most 100 items.
C11_DefaultTakeIs100 ==
  \A p \in Calls :
    (pc[p] = "returned" /\ args[p].take = Undefined) =>
      Len(outcome[p].value.items.v) <= 100


\* ------------------------------------------------- claims on createFilter

\* createFilter was applied
Filtered == compiled # None /\ compiled.fn = "createFilter"

PatternKeys == {"contains", "startsWith", "endsWith"}
ComparisonKeys == {"equals", "not", "gt", "gte", "lt", "lte"}
ListKeys == {"in", "notIn"}

\* the literal <v> of the canonical table: numbers and booleans bare, every
\* other value between single quotes
Literal(v) ==
  IF v.t \in {"number", "boolean"} THEN TemplateString(v)
  ELSE "'" \o TemplateString(v) \o "'"

\* <v1>,<v2>,... of the canonical table
RECURSIVE Literals(_)
Literals(vs) ==
  IF vs = <<>> THEN ""
  ELSE IF Len(vs) = 1 THEN Literal(vs[1])
  ELSE Literal(vs[1]) \o "," \o Literals(Tail(vs))

PatternFunction(filterKey) ==
  CASE filterKey = "contains" -> "CONTAINS"
    [] filterKey = "startsWith" -> "STARTSWITH"
    [] filterKey = "endsWith" -> "ENDSWITH"

ComparisonSign(filterKey) ==
  CASE filterKey = "equals" -> "="
    [] filterKey = "not" -> "!="
    [] filterKey = "gt" -> ">"
    [] filterKey = "gte" -> ">="
    [] filterKey = "lt" -> "<"
    [] filterKey = "lte" -> "<="

\* the fragment the canonical table gives
CanonicalFragment(field, filterKey, mode, value) ==
  CASE filterKey \in PatternKeys ->
         (IF mode = Str("INSENSITIVE")
          THEN PatternFunction(filterKey) \o "(LOWER(c." \o field \o "), LOWER("
                 \o Literal(value) \o "))"
          ELSE PatternFunction(filterKey) \o "(c." \o field \o ", "
                 \o Literal(value) \o ")")
    [] filterKey \in ComparisonKeys ->
         "c." \o field \o " " \o ComparisonSign(filterKey) \o " " \o Literal(value)
    [] filterKey = "in" -> "c." \o field \o " IN (" \o Literals(value.v) \o ")"
    [] filterKey = "notIn" ->
         "c." \o field \o " NOT IN (" \o Literals(value.v) \o ")"

\* the applications the canonical table speaks of: a pattern operator on a
\* string, a comparison on any scalar, a list operator on a non-empty list
InTable ==
  /\ Filtered
  /\ \/ compiled.filterKey \in PatternKeys /\ compiled.value.t = "string"
     \/ compiled.filterKey \in ComparisonKeys
     \/ compiled.filterKey \in ListKeys /\ compiled.value.v # <<>>

\* C12: for every recognized operator key and each mode, createFilter returns
\* the fragment of the canonical table character for character; sensitive
\* endsWith is ENDSWITH(c.f, <v>).
C12_CanonicalTable ==
  InTable =>
    compiled.text = CanonicalFragment(compiled.field, compiled.filterKey,
                                      compiled.mode, compiled.value)

\* buildWhereClause was applied
Where == compiled # None /\ compiled.fn = "buildWhereClause"

InsensitiveStartsWith ==
  Obj(<<Entry("firstName", Obj(<<Entry("startsWith", Str("A")),
                                 Entry("mode", Str("INSENSITIVE"))>>))>>)

C14_ModeOnlyForPatterns ==
  (Filtered /\ compiled.filterKey \in ComparisonKeys \cup ListKeys) =>
    \A mode \in Modes :
      compiled.text = createFilter(compiled.field, compiled.filterKey, mode,
                                   compiled.value)

C14_Witness ==
  /\ Filtered
  /\ compiled.filterKey = "equals"
  /\ compiled.mode = Str("INSENSITIVE")
  /\ compiled.value = Str("A")
  /\ compiled.text = "c.firstName = 'A'"

\* C15: for equals, not, gt, gte, lt and lte createFilter renders a numeric
\* or boolean value unquoted and every other value (string, date) as a
\* single-quoted literal.
C15_ValueRendering ==
  (Filtered /\ compiled.filterKey \in ComparisonKeys) =>
    LET head == "c." \o compiled.field \o " "
                  \o ComparisonSign(compiled.filterKey) \o " "
        v == compiled.value
    IN IF v.t \in {"number", "boolean"}
       THEN compiled.text = head \o TemplateString(v)
       ELSE compiled.text = head \o "'" \o TemplateString(v) \o "'"

C15_Witness ==
  /\ Filtered
  /\ compiled.filterKey = "lte"
  /\ compiled.field = "age"
  /\ \/ compiled.value = Num(25) /\ compiled.text = "c.age <= 25"
     \/ compiled.value = Str("A") /\ compiled.text = "c.age <= 'A'"

AgeInNameNotIn ==
  Obj(<<Entry("age", Obj(<<Entry("in", Arr(<<Num(25), Num(30), Num(35)>>))>>)),
        Entry("firstName",
              Obj(<<Entry("notIn", Arr(<<Str("Alice"), Str("Bob")>>))>>))>>)

C17_EmptyListDropped ==
  /\ (Filtered /\ compiled.filterKey \in ListKeys /\ compiled.value.v = <<>>) =>
       compiled.text = ""
  /\ Where => ~Contains(compiled.text, "IN ()")

\* ---------------------------------------------- claims on buildWhereClause

\* the where mapping without the entries whose key createFilter does not
\* recognize (mode is no operator: buildWhereClause reads it)
StripUnknown(where) ==
  Obj([i \in 1..Len(where.e) |->
         Entry(where.e[i].k,
               Obj(SelectSeq(where.e[i].v.e,
                             LAMBDA en : en.k \in RecognizedKeys \cup {"mode"})))])

HasUnknownKey(where) ==
  /\ where.t = "object"
  /\ \E i \in 1..Len(where.e) :
       \E j \in 1..Len(where.e[i].v.e) :
         where.e[i].v.e[j].k \notin RecognizedKeys \cup {"mode"}

\* C18: an operator key that is not recognized raises no error: createFilter
\* compiles it to the empty fragment and buildWhereClause discards it, so the
\* clause is the one built without that key.
C18_UnknownKeyDropped ==
  /\ (Filtered /\ compiled.filterKey \notin RecognizedKeys) => compiled.text = ""
  /\ (Where /\ HasUnknownKey(compiled.where)) =>
       compiled.text = buildWhereClause(StripUnknown(compiled.where))

C18_Witness ==
  /\ Where
  /\ compiled.where =
       Obj(<<Entry("age", Obj(<<Entry("like", Str("x")),
                                Entry("gte", Num(18))>>))>>)
  /\ compiled.text = "WHERE c.age >= 18"

\* some entry of some field of the where mapping compiles to a fragment
ProducesFragment(where) ==
  /\ where.t = "object"
  /\ \E i \in 1..Len(where.e) :
       \E j \in 1..Len(where.e[i].v.e), mode \in Modes :
         createFilter(where.e[i].k, where.e[i].v.e[j].k, mode,
                      where.e[i].v.e[j].v) # ""

\* the where mapping is absent, null or empty, or its fields hold no
\* operator, only a mode, or only keys that are not recognized
NothingToFilter(where) ==
  \/ where.t \in {"undefined", "null"}
  \/ /\ where.t = "object"
     /\ \A i \in 1..Len(where.e) :
          \A j \in 1..Len(where.e[i].v.e) :
            where.e[i].v.e[j].k \notin RecognizedKeys

\* C19: buildWhereClause returns the empty string exactly when no non-empty
\* fragment is produced (absent, null or empty where; fields with no
\* operators, only a mode, or only unrecognized keys); it never returns a bare
\* WHERE: a non-empty result is 'WHERE ' followed by at least one fragment.
C19_EmptyOrWhere ==
  Where =>
    /\ compiled.text = "" <=> ~ProducesFragment(compiled.where)
    /\ NothingToFilter(compiled.where) => compiled.text = ""
    /\ compiled.text # "" =>
         /\ Len(compiled.text) > Len("WHERE ")
         /\ SubSeq(compiled.text, 1, Len("WHERE ")) = "WHERE "

C19_Witness ==
  /\ Where
  /\ compiled.where =
       Obj(<<Entry("age", Obj(<<Entry("mode", Str("INSENSITIVE"))>>)),
             Entry("firstName", Obj(<<Entry("like", Str("x"))>>))>>)
  /\ compiled.text = ""

\* the mode buildWhereClause gives the operators of one field
EffectiveMode(filters) ==
  IF \E j \in 1..Len(filters.e) :
       filters.e[j].k = "mode" /\ Truthy(filters.e[j].v)
  THEN filters.e[CHOOSE j \in 1..Len(filters.e) : filters.e[j].k = "mode"].v
  ELSE Str("SENSITIVE")

\* the non-empty fragments from entry j of field i on, fields in declaration
\* order and each field's keys in declaration order, with AND between them
RECURSIVE Conjoined(_, _, _)
Conjoined(where, i, j) ==
  IF i > Len(where.e) THEN ""
  ELSE IF j > Len(where.e[i].v.e) THEN Conjoined(where, i + 1, 1)
  ELSE LET fragment == createFilter(where.e[i].k, where.e[i].v.e[j].k,
                                    EffectiveMode(where.e[i].v),
                                    where.e[i].v.e[j].v)
           rest == Conjoined(where, i, j + 1)
       IN IF fragment = "" THEN rest
          ELSE IF rest = "" THEN fragment
          ELSE fragment \o " AND " \o rest

\* C20: for a where mapping that produces fragments buildWhereClause returns
\* 'WHERE ' followed by all non-empty fragments joined by ' AND ', ordered by
\* the fields' declaration order and within a field by its keys' declaration
\* order, each filter once.
C20_ConjunctionInOrder ==
  (Where /\ ProducesFragment(compiled.where)) =>
    compiled.text = "WHERE " \o Conjoined(compiled.where, 1, 1)

C20_Witness ==
  /\ Where
  /\ compiled.where =
       Obj(<<Entry("firstName", Obj(<<Entry("startsWith", Str("A")),
                                      Entry("gte", Num(18))>>)),
             Entry("age",
                   Obj(<<Entry("notIn", Arr(<<Str("Alice"), Str("Bob")>>))>>))>>)
  /\ compiled.text =
       "WHERE STARTSWITH(c.firstName, 'A') AND c.firstName >= 18"
         \o " AND c.age NOT IN ('Alice','Bob')"

\* ---------------------------------------- claims on constructFieldSelection

\* constructFieldSelection was applied
Selected == compiled # None /\ compiled.fn = "constructFieldSelection"

\* C21: constructFieldSelection returns '*' when the select mapping is
\* undefined, null or has no keys.
C21_NoSelectIsStar ==
  (Selected /\ compiled.select \in {Undefined, Null, Obj(<<>>)}) =>
    compiled.text = "*"

C21_Witness ==
  /\ Selected
  /\ compiled.select = Obj(<<>>)
  /\ compiled.text = "*"

\* c.<field> of the entries with a truthy value, in declaration order, with
\* ', ' between them
RECURSIVE TruthyProjection(_)
TruthyProjection(entries) ==
  IF entries = <<>> THEN ""
  ELSE LET rest == TruthyProjection(Tail(entries))
       IN IF ~Truthy(Head(entries).v) THEN rest
          ELSE IF rest = "" THEN "c." \o Head(entries).k
          ELSE "c." \o Head(entries).k \o ", " \o rest

\* C22: for a non-empty select mapping constructFieldSelection projects only
\* the fields whose value is truthy, as c.<field>, in declaration order,
\* joined by ', '; when no field is truthy it returns '*'.
C22_TruthyFieldsOnly ==
  (Selected /\ compiled.select.t = "object" /\ compiled.select.e # <<>>) =>
    compiled.text =
      (IF TruthyProjection(compiled.select.e) = "" THEN "*"
       ELSE TruthyProjection(compiled.select.e))

\* ----------------------------------------- claims on constructOrderByClause

\* constructOrderByClause was applied
Ordered == compiled # None /\ compiled.fn = "constructOrderByClause"

\* 'c.<field> <direction>' of each entry, in declaration order, with ', '
\* between them
RECURSIVE Ordering(_)
Ordering(entries) ==
  IF entries = <<>> THEN ""
  ELSE LET first == "c." \o Head(entries).k \o " " \o Head(entries).v.s
       IN IF Tail(entries) = <<>> THEN first
          ELSE first \o ", " \o Ordering(Tail(entries))

LastNameThenFirstName ==
  Obj(<<Entry("lastName", Str("ASC")), Entry("firstName", Str("DESC"))>>)

\* C23: constructOrderByClause returns the empty string for an absent or
\* empty orderBy mapping, and otherwise 'ORDER BY ' followed by one
\* 'c.<field> <direction>' per entry, in declaration order, joined by ', ';
\* {lastName: 'ASC', firstName: 'DESC'} gives
\* ORDER BY c.lastName ASC, c.firstName DESC.
C23_OrderByInOrder ==
  Ordered =>
    /\ compiled.orderBy \in {Undefined, Null, Obj(<<>>)} => compiled.text = ""
    /\ (compiled.orderBy.t = "object" /\ compiled.orderBy.e # <<>>) =>
         compiled.text = "ORDER BY " \o Ordering(compiled.orderBy.e)
    /\ compiled.orderBy = LastNameThenFirstName =>
         compiled.text = "ORDER BY c.lastName ASC, c.firstName DESC"

C23_Witness ==
  /\ Ordered
  /\ compiled.orderBy = LastNameThenFirstName
  /\ compiled.text = "ORDER BY c.lastName ASC, c.firstName DESC"

\* --------------------------------------------- claims on buildQueryFindMany

\* buildQueryFindMany was applied
Assembled == compiled # None /\ compiled.fn = "buildQueryFindMany"

EndsWith(s, suffix) ==
  Len(s) >= Len(suffix) /\ SubSeq(s, Len(s) - Len(suffix) + 1, Len(s)) = suffix

\* SELECT <projection> FROM c [WHERE ...] [ORDER BY ...]
Assembly(dto) ==
  LET whereClause == buildWhereClause(dto.where)
      orderByClause == constructOrderByClause(dto.orderBy)
  IN "SELECT " \o constructFieldSelection(dto.select) \o " FROM c"
       \o (IF whereClause = "" THEN "" ELSE " " \o whereClause)
       \o (IF orderByClause = "" THEN "" ELSE " " \o orderByClause)

NothingAsked(x) == x \in {Undefined, Null, Obj(<<>>)}

\* the text is the clauses in their fixed order, has no whitespace at its
\* ends and no keyword left without its clause, and is the minimal query for
\* the request that asks nothing
WellAssembled ==
  /\ compiled.text = Assembly(compiled.dto)
  /\ SubSeq(compiled.text, 1, 1) # " "
  /\ ~EndsWith(compiled.text, " ")
  /\ ~EndsWith(compiled.text, "WHERE")
  /\ ~EndsWith(compiled.text, "ORDER BY")
  /\ (NothingAsked(compiled.dto.where) /\ NothingAsked(compiled.dto.select)
        /\ NothingAsked(compiled.dto.orderBy)) =>
       compiled.text = "SELECT * FROM c"

\* some string value of the where mapping holds two consecutive spaces
HasWideValue(where) ==
  /\ where.t = "object"
  /\ \E i \in 1..Len(where.e) :
       \E j \in 1..Len(where.e[i].v.e) :
         /\ where.e[i].v.e[j].v.t = "string"
         /\ Contains(where.e[i].v.e[j].v.s, "  ")

\* C24 as stated: for every where/select/orderBy request the text is SELECT
\* <projection> FROM c [WHERE ...] [ORDER BY ...] joined by single spaces,
\* and it never contains two consecutive spaces.
C24_NeverTwoSpaces ==
  Assembled => (WellAssembled /\ ~Contains(compiled.text, "  "))

\* C24: the text is the non-empty clauses in the fixed order SELECT
\* <projection> FROM c [WHERE ...] [ORDER BY ...] with one space between
\* neighbours, without whitespace at its ends or a dangling keyword, and
\* 'SELECT * FROM c' when nothing is asked; two consecutive spaces occur in it
\* only inside a value of the where mapping that holds them.
C24_ClausesSingleSpaced ==
  Assembled =>
    /\ WellAssembled
    /\ Contains(compiled.text, "  ") => HasWideValue(compiled.dto.where)

C24_Witness ==
  /\ Assembled
  /\ compiled.dto = [where |-> Obj(<<Entry("age", Obj(<<>>))>>),
                     select |-> Obj(<<>>),
                     orderBy |-> Obj(<<Entry("lastName", Str("ASC"))>>)]
  /\ compiled.text = "SELECT * FROM c ORDER BY c.lastName ASC"

\* ------------------------------------ claims taken from the repository's tests

\* C25: as the repository's test asserts, buildWhereClause separates the
\* elements of in / notIn lists by a comma and a space:
\* {age: {in: [25,30,35]}, firstName: {notIn: ['Alice','Bob']}} gives
\* WHERE c.age IN (25, 30, 35) AND c.firstName NOT IN ('Alice', 'Bob').
C25_ListsCommaSpace ==
  (Where /\ compiled.where = AgeInNameNotIn) =>
    compiled.text =
      "WHERE c.age IN (25, 30, 35) AND c.firstName NOT IN ('Alice', 'Bob')"

InsensitiveEndsWith ==
  Obj(<<Entry("lastName", Obj(<<Entry("endsWith", Str("z")),
                                Entry("mode", Str("INSENSITIVE"))>>))>>)

\* C26: as the repository's test asserts, buildWhereClause compiles endsWith
\* in INSENSITIVE mode to a LIKE pattern:
\* {lastName: {endsWith: 'z', mode: 'INSENSITIVE'}} gives the fragment
\* LOWER(c.lastName) LIKE '%LOWER('z')'.
C26_EndsWithLike ==
  (Where /\ compiled.where = InsensitiveEndsWith) =>
    compiled.text = "WHERE LOWER(c.lastName) LIKE '%LOWER('z')'"

\* ------------------------------------------------- claims on interpolation

\* the characters of s between its first and its last single quote
BetweenQuotes(s) ==
  LET quotes == {i \in 1..Len(s) : SubSeq(s, i, i) = "'"}
      first == CHOOSE i \in quotes : \A k \in quotes : i <= k
      last == CHOOSE i \in quotes : \A k \in quotes : k <= i
  IN SubSeq(s, first + 1, last - 1)

QuoteInValue ==
  [where |-> Obj(<<Entry("firstName", Obj(<<Entry("equals", Str("it's"))>>))>>),
   select |-> Undefined, orderBy |-> Undefined]

\* C27: createFilter puts a string value between two single quotes with no
\* escaping: the characters between the opening and the closing quote are
\* those of the value, a single quote in the value included; and
\* buildQueryFindMany places the fragments unchanged into the query text.
C27_ValueVerbatim ==
  /\ (Filtered /\ compiled.filterKey \in PatternKeys \cup ComparisonKeys
        /\ compiled.value.t = "string") =>
       BetweenQuotes(compiled.text) = compiled.value.s
  /\ (Assembled /\ buildWhereClause(compiled.dto.where) # "") =>
       Contains(compiled.text, buildWhereClause(compiled.dto.where))
  /\ (Assembled /\ compiled.dto = QuoteInValue) =>
       compiled.text = "SELECT * FROM c WHERE c.firstName = 'it's'"

C27_Witness ==
  /\ Assembled
  /\ compiled.dto = QuoteInValue
  /\ compiled.text = "SELECT * FROM c WHERE c.firstName = 'it's'"

\* ----------------------------------------------------- claims on the mode

IsMode(en) == en.k = "mode"
IsNoMode(en) == en.k # "mode"

\* the where mapping with the mode entry of each field moved before the
\* field's other entries
ModeFirst(where) ==
  Obj([i \in 1..Len(where.e) |->
         Entry(where.e[i].k,
               Obj(SelectSeq(where.e[i].v.e, IsMode)
                     \o SelectSeq(where.e[i].v.e, IsNoMode)))])

\* the where mapping with mode: 'SENSITIVE' added to each field without a mode
ModeSpelledOut(where) ==
  Obj([i \in 1..Len(where.e) |->
         IF SelectSeq(where.e[i].v.e, IsMode) # <<>> THEN where.e[i]
         ELSE Entry(where.e[i].k,
                    Obj(Append(where.e[i].v.e, Entry("mode", Str("SENSITIVE")))))])

\* the conditions of the clause built for field i alone
AloneConditions(where, i) ==
  LET clause == buildWhereClause(Obj(<<where.e[i]>>))
  IN IF clause = "" THEN "" ELSE SubSeq(clause, Len("WHERE ") + 1, Len(clause))

\* the clauses built for each field alone, put together
RECURSIVE FieldByField(_, _)
FieldByField(where, i) ==
  IF i > Len(where.e) THEN ""
  ELSE LET own == AloneConditions(where, i)
           rest == FieldByField(where, i + 1)
       IN IF own = "" THEN rest
          ELSE IF rest = "" THEN own
          ELSE own \o " AND " \o rest

\* C28: a field's mode applies to every pattern operator of that field
\* whatever the position of the mode key among the field's keys, it never
\* leaks to another field (a field without a mode entry is compiled as
\* SENSITIVE), and the mode entry itself contributes no fragment.
C28_ModePerField ==
  /\ (Where /\ compiled.where.t = "object" /\ compiled.where.e # <<>>) =>
       /\ compiled.text = buildWhereClause(ModeFirst(compiled.where))
       /\ compiled.text = buildWhereClause(ModeSpelledOut(compiled.where))
       /\ compiled.text =
            (IF FieldByField(compiled.where, 1) = "" THEN ""
             ELSE "WHERE " \o FieldByField(compiled.where, 1))
       /\ ~Contains(compiled.text, "mode")
  /\ (Filtered /\ compiled.filterKey = "mode") => compiled.text = ""

C28_Witness ==
  /\ Where
  /\ compiled.where =
       Obj(<<Entry("firstName", Obj(<<Entry("startsWith", Str("A")),
                                      Entry("mode", Str("INSENSITIVE"))>>)),
             Entry("lastName", Obj(<<Entry("startsWith", Str("A"))>>))>>)
  /\ compiled.text =
       "WHERE STARTSWITH(LOWER(c.firstName), LOWER('A'))"
         \o " AND STARTSWITH(c.lastName, 'A')"

\* ------------------------------------------- claims on values that are absent

\* the fragments of a built clause: one more than the ANDs between them
Fragments(text) ==
  IF text = "" THEN 0
  ELSE 1 + Cardinality({i \in 1..Len(text) :
                          i + Len(" AND ") - 1 <= Len(text)
                            /\ SubSeq(text, i, i + Len(" AND ") - 1) = " AND "})

\* the recognized operator keys present in the where mapping, field by field
RECURSIVE RecognizedPresent(_)
RecognizedPresent(entries) ==
  IF entries = <<>> THEN 0
  ELSE Cardinality({j \in 1..Len(Head(entries).v.e) :
                      Head(entries).v.e[j].k \in RecognizedKeys})
         + RecognizedPresent(Tail(entries))

\* C29: buildWhereClause does not drop a recognized scalar operator whose
\* value is undefined or null: createFilter emits a fragment with the value
\* rendered as 'undefined' or 'null', so the number of fragments equals the
\* number of recognized operator keys present, whatever their values.
C29_AbsentValueKept ==
  /\ (Filtered /\ compiled.filterKey \in PatternKeys \cup ComparisonKeys
        /\ compiled.value \in {Undefined, Null}) =>
       BetweenQuotes(compiled.text) =
         (IF compiled.value = Undefined THEN "undefined" ELSE "null")
  /\ (Where /\ compiled.where.t = "object") =>
       Fragments(compiled.text) = RecognizedPresent(compiled.where.e)

C29_Witness ==
  /\ Where
  /\ compiled.where =
       Obj(<<Entry("age", Obj(<<Entry("equals", Undefined),
                                Entry("contains", Null),
                                Entry("gte", Num(18))>>))>>)
  /\ compiled.text =
       "WHERE c.age = 'undefined' AND CONTAINS(c.age, 'null') AND c.age >= 18"

=============================================================================
